---- MODULE Spec2Model ----
(***************************************************************************)
(* deadman-webui: the monitoring-state engine of src/deadman-webui.py.     *)
(*                                                                         *)
(* HostMonitor (the per-host bounded history with its derived last-known   *)
(* values), LogParser (the registry of monitors and the refresh that       *)
(* re-reads the tail of every log file) and the three JSON handlers.       *)
(*                                                                         *)
(* Time is counted in whole seconds.  A datetime is a natural number, a    *)
(* float reading is a natural number (the log holds readings >= 0), and    *)
(* Python's None is the value None below, which no reading or datetime     *)
(* takes.                                                                  *)
(***************************************************************************)
EXTENDS Integers, Sequences, FiniteSets, TLC

\* ------------------------------------------------------------------ bounds
\* deque(maxlen=600): the capacity of a history, scaled down.
HISTORY_MAXLEN == 3
\* The lines parse_log_file rejects, over all log files.
MaxBadLines == 1
\* update_monitor's tail_lines=600: the lines re-read per refresh.  The source
\* gives it the value of the capacity, and so does the model.
TAIL_LINES == HISTORY_MAXLEN
\* Lines deadman writes, over all log files: enough for a log longer than the
\* tail a refresh reads.
MaxLines == TAIL_LINES + 1
\* Measurements one monitor is fed over a run: enough to overflow a history.
MaxAppends == HISTORY_MAXLEN + 1

\* ------------------------------------------------------- program constants
\* timedelta(seconds=5) of get_status_class.
STALE_SECONDS == 5
\* The default time_range of get_sparkline_data and of /api/monitors.
DEFAULT_TIME_RANGE == 180
\* Python's None (last_update, prev_current, prev_average before any append).
None == -1

\* The names of targets: of log files and of configuration lines.
Names == {"a", "b"}
\* The targets deadman pings, one log file each, named after the target.
Pinged == {"a"}
\* The instants at which the clock is read or a line is written.
Instants == {0, 1, STALE_SECONDS + 1}

\* The (current, average) readings of a log line.
Readings == {<<0, 0>>, <<5, 5>>, <<5, 6>>, <<6, 6>>}
\* The readings deadman writes in the runs of the whole program.
WrittenReadings == {<<0, 0>>, <<5, 5>>}
\* The time_range values a client of /api/monitors sends.
TimeRanges == {0, 1, DEFAULT_TIME_RANGE}

\* ----------------------------------------------------------------- helpers
Min(x, y) == IF x <= y THEN x ELSE y
Max(x, y) == IF x >= y THEN x ELSE y

\* The last n elements of s (all of s when it is shorter).
LastN(s, n) == SubSeq(s, Len(s) - Min(n, Len(s)) + 1, Len(s))

\* Python's s[start:] for a list s and any integer start.
PySliceFrom(s, start) ==
    LET from == IF start < 0 THEN Max(Len(s) + start, 0) ELSE Min(start, Len(s))
    IN  SubSeq(s, from + 1, Len(s))

\* The number of entries of a history with is_loss set.
RECURSIVE CountLoss(_)
CountLoss(h) ==
    IF h = <<>> THEN 0
    ELSE (IF Head(h).is_loss THEN 1 ELSE 0) + CountLoss(Tail(h))

RECURSIVE Gcd(_, _)
Gcd(x, y) == IF y = 0 THEN x ELSE Gcd(y, x % y)

\* A non-negative rational in lowest terms; the floats of get_loss_rate are
\* kept exact.
Rat(n, d) == LET g == Gcd(n, d) IN [num |-> n \div g, den |-> d \div g]
RatMul(r, k) == Rat(r.num * k, r.den)

\* ------------------------------------------------------------- HostMonitor
\* HostMonitor.__init__
HostMonitor(name, address) ==
    [name          |-> name,
     address       |-> address,
     history       |-> <<>>,
     last_current  |-> 0,
     last_average  |-> 0,
     last_sequence |-> 0,
     last_update   |-> None,
     prev_current  |-> None,
     prev_average  |-> None]

\* A deque built without maxlen: nothing is ever dropped.
DequeAppendUnbounded(history, entry) == Append(history, entry)

\* A full deque that drops at the end it appends to: the newest entry goes.
DequeAppendDropNewest(history, entry) ==
    IF Len(history) >= HISTORY_MAXLEN
    THEN Append(SubSeq(history, 1, Len(history) - 1), entry)
    ELSE Append(history, entry)

\* deque.append on a deque of maxlen HISTORY_MAXLEN: a full deque drops the
\* element at its other end.
DequeAppend(history, entry) ==
    IF Len(history) >= HISTORY_MAXLEN
    THEN Append(Tail(history), entry)
    ELSE Append(history, entry)

\* is_loss comparing the current reading alone with the previous one.
IsLossCurrentOnly(m, current, average) ==
    \/ current = 0
    \/ /\ m.prev_current # None
       /\ current = m.prev_current
       /\ current > 0

\* is_loss by the repeated-reading rule alone.
IsLossRepeatOnly(m, current, average) ==
    /\ m.prev_current # None
    /\ m.prev_average # None
    /\ current = m.prev_current
    /\ average = m.prev_average

\* The is_loss of add_measurement.
IsLoss(m, current, average) ==
    \/ current = 0
    \/ /\ m.prev_current # None
       /\ m.prev_average # None
       /\ current = m.prev_current
       /\ average = m.prev_average
       /\ current > 0

\* The dict add_measurement appends.
NewEntry(m, current, average, sequence, timestamp) ==
    [timestamp |-> timestamp,
     current   |-> current,
     average   |-> average,
     sequence  |-> sequence,
     is_loss   |-> IsLoss(m, current, average)]

\* add_measurement leaving last_* alone when the measurement is a loss.
add_measurement_KeepLastOnLoss(m, current, average, sequence, timestamp) ==
    LET e == NewEntry(m, current, average, sequence, timestamp)
    IN  [m EXCEPT
            !.history       = DequeAppend(@, e),
            !.prev_current  = current,
            !.prev_average  = average,
            !.last_current  = IF e.is_loss THEN @ ELSE current,
            !.last_average  = IF e.is_loss THEN @ ELSE average,
            !.last_sequence = IF e.is_loss THEN @ ELSE sequence,
            !.last_update   = IF e.is_loss THEN @ ELSE timestamp]

\* add_measurement marking the entry before a loss as a loss too.
add_measurement_Retroactive(m, current, average, sequence, timestamp) ==
    LET e    == NewEntry(m, current, average, sequence, timestamp)
        n    == Len(m.history)
        past == IF e.is_loss /\ n > 0
                THEN [m.history EXCEPT ![n].is_loss = TRUE]
                ELSE m.history
    IN  [m EXCEPT
            !.history       = DequeAppend(past, e),
            !.prev_current  = current,
            !.prev_average  = average,
            !.last_current  = current,
            !.last_average  = average,
            !.last_sequence = sequence,
            !.last_update   = timestamp]

\* HostMonitor.add_measurement
add_measurement(m, current, average, sequence, timestamp) ==
    [m EXCEPT
        !.history       = DequeAppend(@, NewEntry(m, current, average, sequence, timestamp)),
        !.prev_current  = current,
        !.prev_average  = average,
        !.last_current  = current,
        !.last_average  = average,
        !.last_sequence = sequence,
        !.last_update   = timestamp]

\* get_loss_rate dividing by the capacity of the history, not by its length.
get_loss_rate_OverCapacity(m) ==
    IF m.history = <<>> THEN Rat(0, 1)
    ELSE RatMul(Rat(CountLoss(m.history), HISTORY_MAXLEN), 100)

\* HostMonitor.get_loss_rate
get_loss_rate(m) ==
    IF m.history = <<>> THEN Rat(0, 1)
    ELSE RatMul(Rat(CountLoss(m.history), Len(m.history)), 100)

\* HostMonitor.get_sparkline_data
get_sparkline_data(m, time_range) ==
    IF time_range >= Len(m.history) THEN m.history
    ELSE PySliceFrom(m.history, -time_range)

\* HostMonitor.is_online
is_online(m) == m.last_current > 0

\* get_status_class calling a host stale from the fifth second on.
get_status_class_StaleAtFive(m, t) ==
    IF m.last_update = None THEN "unknown"
    ELSE IF t - m.last_update >= STALE_SECONDS THEN "stale"
    ELSE IF is_online(m) THEN "up" ELSE "down"

\* HostMonitor.get_status_class, with datetime.now() = t
get_status_class(m, t) ==
    IF m.last_update = None THEN "unknown"
    ELSE IF t - m.last_update > STALE_SECONDS THEN "stale"
    ELSE IF is_online(m) THEN "up" ELSE "down"

\* ----------------------------------------------------------- DeadmanConfig
\* The configuration files the program may be started with, as the lines that
\* pass _parse_config's tests: <<name, host>>.
Configs == { << <<"b", "10.0.0.2">>, <<"a", "10.0.0.1">> >> }

\* DeadmanConfig._parse_config: target_order keeps every line, in file order.
RECURSIVE target_order(_)
target_order(cfg) ==
    IF cfg = <<>> THEN <<>> ELSE <<Head(cfg)[1]>> \o target_order(Tail(cfg))

\* The names of a sequence of names.
Range(s) == {s[i] : i \in DOMAIN s}

\* DeadmanConfig._parse_config: targets[name] = host, a later line overwriting
\* an earlier one; then config_targets.get(name, 'unknown').
targets_get(cfg, name) ==
    IF \E i \in DOMAIN cfg : cfg[i][1] = name
    THEN LET last == CHOOSE i \in DOMAIN cfg :
                        /\ cfg[i][1] = name
                        /\ \A j \in DOMAIN cfg : cfg[j][1] = name => j <= i
         IN  cfg[last][2]
    ELSE "unknown"

VARIABLES
    now,            \* datetime.now(), in seconds
    bad_lines,      \* the lines written that parse_log_file rejects
    config,         \* the lines of the configuration file (fixed at start)
    log_dir,        \* the names of the files in the log directory
    logs,           \* logs[h]: the lines of log file h, oldest first
    monitors,       \* LogParser.monitors: name -> HostMonitor
    monitor_order,  \* the insertion order of the keys of LogParser.monitors
    appended,       \* appended[h]: every dict add_measurement built for h, in order
    response,       \* what the handler just run returned (NoResponse once the
                    \* clock or a log file has moved on)
    unreadable,     \* the log files open() fails on
    threads         \* threads[t]: where request thread t is in its handler

vars == <<now, bad_lines, config, log_dir, logs, monitors, monitor_order, appended,
          response, unreadable, threads>>

\* The request threads of the server (app.run serves each request on its own
\* thread).
Threads == {1, 2}

\* A thread that serves no request.
IdleThread ==
    [pc |-> "idle", time_range |-> 0, listing |-> <<>>, log_name |-> "",
     entries |-> <<>>, fed |-> 0,
     total_hosts |-> 0, up_hosts |-> 0, down_hosts |-> 0]

\* A well-formed log line: "date time current average count".
OkLine(timestamp, reading, count) ==
    [ok |-> TRUE, timestamp |-> timestamp, current |-> reading[1],
     average |-> reading[2], count |-> count]
\* A line parse_log_file skips: fewer than five fields, or a field that
\* fromisoformat, float or int rejects.
BadLine == [ok |-> FALSE, timestamp |-> None, current |-> None,
            average |-> None, count |-> None]

\* ---------------------------------------------------------------- LogParser
\* LogParser.get_available_logs
get_available_logs == log_dir

\* A parse loop that a line it cannot parse ends.
RECURSIVE ParseLinesUntilBad(_)
ParseLinesUntilBad(lines) ==
    IF lines = <<>> THEN <<>>
    ELSE LET l == Head(lines)
         IN  IF l.ok
             THEN << [timestamp |-> l.timestamp, current |-> l.current,
                      average |-> l.average, count |-> l.count,
                      is_loss |-> (l.current = 0)] >>
                  \o ParseLinesUntilBad(Tail(lines))
             ELSE <<>>

\* The entries parse_log_file builds from the lines it keeps.
RECURSIVE ParseLines(_)
ParseLines(lines) ==
    IF lines = <<>> THEN <<>>
    ELSE LET l == Head(lines)
         IN  (IF l.ok
              THEN << [timestamp |-> l.timestamp, current |-> l.current,
                       average |-> l.average, count |-> l.count,
                       is_loss |-> (l.current = 0)] >>
              ELSE <<>>) \o ParseLines(Tail(lines))

\* LogParser.parse_log_file: no entries for a file that is not there, and none
\* for a file open() or readlines() fails on (the except of line 168).
parse_log_file(log_name, tail_lines) ==
    IF log_name \notin log_dir THEN <<>>
    ELSE IF log_name \in unreadable THEN <<>>
    ELSE LET lines == logs[log_name]
             recent_lines == IF Len(lines) > tail_lines
                             THEN PySliceFrom(lines, -tail_lines)
                             ELSE lines
         IN  ParseLines(recent_lines)

\* A loop of update_monitor that stamps every measurement with the time it is
\* fed at, not with the time its line carries.
RECURSIVE FeedEntriesStampedNow(_, _)
FeedEntriesStampedNow(st, entries) ==
    IF entries = <<>> THEN st
    ELSE LET e == Head(entries)
             built == NewEntry(st.monitor, e.current, e.average, e.count, now)
         IN  FeedEntriesStampedNow(
                 [monitor  |-> add_measurement(st.monitor, e.current, e.average,
                                               e.count, now),
                  appended |-> Append(st.appended, built)],
                 Tail(entries))

\* The loop of update_monitor: every entry goes to add_measurement.  st is the
\* monitor with the dicts add_measurement has built for it so far.
RECURSIVE FeedEntries(_, _)
FeedEntries(st, entries) ==
    IF entries = <<>> THEN st
    ELSE LET e == Head(entries)
             built == NewEntry(st.monitor, e.current, e.average, e.count, e.timestamp)
         IN  FeedEntries(
                 [monitor  |-> add_measurement(st.monitor, e.current, e.average,
                                               e.count, e.timestamp),
                  appended |-> Append(st.appended, built)],
                 Tail(entries))

\* An update_monitor that builds the HostMonitor anew on every call.
update_monitor_Rebuilding(reg, log_name, address) ==
    LET known   == log_name \in DOMAIN reg.monitors
        created == HostMonitor(log_name, IF address = "" THEN "unknown" ELSE address)
        monitor == IF address # "" THEN [created EXCEPT !.address = address]
                   ELSE created
        entries == parse_log_file(log_name, TAIL_LINES)
        fed     == FeedEntries([monitor |-> monitor, appended |-> reg.appended[log_name]],
                               entries)
    IN  [monitors |-> [h \in DOMAIN reg.monitors \cup {log_name} |->
                          IF h = log_name THEN fed.monitor ELSE reg.monitors[h]],
         order    |-> IF known THEN reg.order ELSE Append(reg.order, log_name),
         appended |-> [reg.appended EXCEPT ![log_name] = fed.appended]]

\* An update_monitor that gives a new HostMonitor the address as supplied.
update_monitor_NoDefault(reg, log_name, address) ==
    LET known   == log_name \in DOMAIN reg.monitors
        created == IF known THEN reg.monitors[log_name]
                   ELSE HostMonitor(log_name, address)
        monitor == IF address # "" THEN [created EXCEPT !.address = address]
                   ELSE created
        entries == parse_log_file(log_name, TAIL_LINES)
        fed     == FeedEntries([monitor |-> monitor, appended |-> reg.appended[log_name]],
                               entries)
    IN  [monitors |-> [h \in DOMAIN reg.monitors \cup {log_name} |->
                          IF h = log_name THEN fed.monitor ELSE reg.monitors[h]],
         order    |-> IF known THEN reg.order ELSE Append(reg.order, log_name),
         appended |-> [reg.appended EXCEPT ![log_name] = fed.appended]]

\* LogParser.update_monitor on the registry reg = [monitors, order, appended].
update_monitor(reg, log_name, address) ==
    LET known   == log_name \in DOMAIN reg.monitors
        created == IF known THEN reg.monitors[log_name]
                   ELSE HostMonitor(log_name, IF address = "" THEN "unknown" ELSE address)
        monitor == IF address # "" THEN [created EXCEPT !.address = address]
                   ELSE created
        entries == parse_log_file(log_name, TAIL_LINES)
        fed     == FeedEntries([monitor |-> monitor, appended |-> reg.appended[log_name]],
                               entries)
    IN  [monitors |-> [h \in DOMAIN reg.monitors \cup {log_name} |->
                          IF h = log_name THEN fed.monitor ELSE reg.monitors[h]],
         order    |-> IF known THEN reg.order ELSE Append(reg.order, log_name),
         appended |-> [reg.appended EXCEPT ![log_name] = fed.appended]]

\* An update_all_monitors that the failure to read a file ends.
RECURSIVE update_all_monitors_Aborting(_, _, _)
update_all_monitors_Aborting(reg, cfg, listing) ==
    IF listing = <<>> THEN reg
    ELSE IF Head(listing) \in unreadable THEN reg
    ELSE update_all_monitors_Aborting(
             update_monitor(reg, Head(listing), targets_get(cfg, Head(listing))),
             cfg, Tail(listing))

\* LogParser.update_all_monitors, the directory listed in the order `listing`.
RECURSIVE update_all_monitors(_, _, _)
update_all_monitors(reg, cfg, listing) ==
    IF listing = <<>> THEN reg
    ELSE update_all_monitors(
             update_monitor(reg, Head(listing), targets_get(cfg, Head(listing))),
             cfg, Tail(listing))

\* The orders in which iterdir may list the files.
Listings(files) ==
    {s \in [1..Cardinality(files) -> files] : Range(s) = files}

\* ----------------------------------------------------------------- handlers
\* One element of monitor_list (and the body of /api/monitor/<target>, less
\* its history and history_count).
Snapshot(m, name, time_range, t) ==
    [name           |-> name,
     address        |-> m.address,
     status         |-> get_status_class(m, t),
     loss_rate      |-> get_loss_rate(m),
     last_current   |-> m.last_current,
     last_average   |-> m.last_average,
     last_sequence  |-> m.last_sequence,
     last_update    |-> m.last_update,
     sparkline_data |-> get_sparkline_data(m, time_range)]

\* The elements of s that satisfy Keep, in order.
RECURSIVE SelectInOrder(_, _)
SelectInOrder(s, keep) ==
    IF s = <<>> THEN <<>>
    ELSE (IF Head(s) \in keep THEN <<Head(s)>> ELSE <<>>) \o SelectInOrder(Tail(s), keep)

\* A monitor_list in the order of the registry, whatever the configuration.
ListOrderOfRegistry(cfg, mons, order) == order

\* The order of monitor_list in api_monitors.
ListOrder(cfg, mons, order) ==
    IF target_order(cfg) # <<>>
    THEN SelectInOrder(target_order(cfg), DOMAIN mons)
         \o SelectInOrder(order, DOMAIN mons \ Range(target_order(cfg)))
    ELSE order

NoResponse == [kind |-> "none"]

Init ==
    /\ now = 0
    /\ bad_lines = 0
    /\ config \in Configs
    /\ log_dir = {}
    /\ logs = [h \in Names |-> <<>>]
    /\ monitors = <<>>
    /\ monitor_order = <<>>
    /\ appended = [h \in Names |-> <<>>]
    /\ response = NoResponse
    /\ unreadable = {}
    /\ threads = [t \in Threads |-> IdleThread]

\* The wall clock advances to a later instant.
Tick ==
    /\ \E t \in Instants : t > now /\ now' = t
    /\ response' = NoResponse
    /\ UNCHANGED <<bad_lines, config, log_dir, logs, monitors, monitor_order, appended, unreadable, threads>>

TotalLines == Len(logs["a"]) + Len(logs["b"])

\* deadman appends a line to the log of target h, stamped with the time of
\* writing; the first line creates the file.
DeadmanWrite(h, line) ==
    /\ TotalLines < MaxLines
    /\ bad_lines' = bad_lines + (IF line.ok THEN 0 ELSE 1)
    /\ bad_lines' <= MaxBadLines
    /\ logs' = [logs EXCEPT ![h] = Append(@, line)]
    /\ log_dir' = log_dir \cup {h}
    /\ response' = NoResponse
    /\ UNCHANGED <<now, config, monitors, monitor_order, appended, unreadable, threads>>

\* An api_monitors that keeps only the monitors of the files it has listed.
api_monitors_Pruning(time_range, listing) ==
    LET reg == update_all_monitors(
                   [monitors |-> monitors, order |-> monitor_order, appended |-> appended],
                   config, listing)
        kept  == [h \in Range(listing) |-> reg.monitors[h]]
        order == SelectInOrder(reg.order, Range(listing))
        names == ListOrder(config, kept, order)
    IN  /\ \A h \in Names : Len(reg.appended[h]) <= MaxAppends
        /\ monitors' = kept
        /\ monitor_order' = order
        /\ appended' = reg.appended
        /\ response' = [kind |-> "monitors", time_range |-> time_range,
                        body |-> [i \in DOMAIN names |->
                                     Snapshot(kept[names[i]], names[i],
                                              time_range, now)]]
        /\ UNCHANGED <<now, bad_lines, config, log_dir, logs, unreadable, threads>>

\* GET /api/monitors?time_range=...
api_monitors(time_range, listing) ==
    LET reg == update_all_monitors(
                   [monitors |-> monitors, order |-> monitor_order, appended |-> appended],
                   config, listing)
        names == ListOrder(config, reg.monitors, reg.order)
    IN  /\ \A h \in Names : Len(reg.appended[h]) <= MaxAppends
        /\ monitors' = reg.monitors
        /\ monitor_order' = reg.order
        /\ appended' = reg.appended
        /\ response' = [kind |-> "monitors", time_range |-> time_range,
                        body |-> [i \in DOMAIN names |->
                                     Snapshot(reg.monitors[names[i]], names[i],
                                              time_range, now)]]
        /\ UNCHANGED <<now, bad_lines, config, log_dir, logs, unreadable, threads>>

\* A detail handler that looks the target up with a registry that creates what
\* it is asked for.
api_monitor_detail_Creating(target) ==
    /\ response' =
          IF target \notin DOMAIN monitors
          THEN [kind |-> "detail", target |-> target, code |-> 404]
          ELSE LET snap == Snapshot(monitors[target], target, DEFAULT_TIME_RANGE, now)
               IN  [kind |-> "detail", target |-> target, code |-> 200,
                    body |-> snap, history_count |-> Len(snap.sparkline_data)]
    /\ monitors' = [h \in DOMAIN monitors \cup {target} |->
                       IF h \in DOMAIN monitors THEN monitors[h]
                       ELSE HostMonitor(target, "unknown")]
    /\ monitor_order' = IF target \in DOMAIN monitors THEN monitor_order
                        ELSE Append(monitor_order, target)
    /\ UNCHANGED <<now, bad_lines, config, log_dir, logs, appended, unreadable, threads>>

\* A detail handler that takes the entries out of the history it reports.
api_monitor_detail_Draining(target) ==
    /\ response' =
          IF target \notin DOMAIN monitors
          THEN [kind |-> "detail", target |-> target, code |-> 404]
          ELSE LET snap == Snapshot(monitors[target], target, DEFAULT_TIME_RANGE, now)
               IN  [kind |-> "detail", target |-> target, code |-> 200,
                    body |-> snap, history_count |-> Len(snap.sparkline_data)]
    /\ monitors' = [h \in DOMAIN monitors |->
                       IF h = target THEN [monitors[h] EXCEPT !.history = <<>>]
                       ELSE monitors[h]]
    /\ UNCHANGED <<now, bad_lines, config, log_dir, logs, monitor_order, appended,
                   unreadable, threads>>

\* GET /api/monitor/<target>
api_monitor_detail(target) ==
    /\ response' =
          IF target \notin DOMAIN monitors
          THEN [kind |-> "detail", target |-> target, code |-> 404]
          ELSE LET snap == Snapshot(monitors[target], target, DEFAULT_TIME_RANGE, now)
               IN  [kind |-> "detail", target |-> target, code |-> 200,
                    body |-> snap, history_count |-> Len(snap.sparkline_data)]
    /\ UNCHANGED <<now, bad_lines, config, log_dir, logs, monitors, monitor_order, appended, unreadable, threads>>

\* The monitors whose get_status_class is s.
WithStatus(s) == {h \in DOMAIN monitors : get_status_class(monitors[h], now) = s}

\* The sum of the loss rates of the monitors of hs, as a rational.
RECURSIVE SumLossRates(_)
SumLossRates(hs) ==
    IF hs = {} THEN [num |-> 0, den |-> 1]
    ELSE LET h == CHOOSE x \in hs : TRUE
             r == get_loss_rate(monitors[h])
             rest == SumLossRates(hs \ {h})
         IN  Rat(r.num * rest.den + rest.num * r.den, r.den * rest.den)

\* GET /api/stats
api_stats ==
    LET total_hosts == Cardinality(DOMAIN monitors)
        up_hosts    == Cardinality(WithStatus("up"))
        down_hosts  == Cardinality(WithStatus("down"))
        stale_hosts == Cardinality(WithStatus("stale"))
        sum         == SumLossRates(DOMAIN monitors)
    IN  /\ response' =
              [kind |-> "stats",
               total_hosts   |-> total_hosts,
               up_hosts      |-> up_hosts,
               down_hosts    |-> down_hosts,
               stale_hosts   |-> stale_hosts,
               unknown_hosts |-> total_hosts - up_hosts - down_hosts - stale_hosts,
               average_loss_rate |->
                   IF total_hosts # 0 THEN Rat(sum.num, sum.den * total_hosts)
                   ELSE Rat(0, 1)]
        /\ UNCHANGED <<now, bad_lines, config, log_dir, logs, monitors, monitor_order, appended, unreadable, threads>>

Write ==
    \E h \in Pinged :
        \/ \E r \in WrittenReadings :
              DeadmanWrite(h, OkLine(now, r, Len(logs[h]) + 1))
        \/ DeadmanWrite(h, BadLine)

Monitors == \E tr \in TimeRanges : \E l \in Listings(get_available_logs) : api_monitors(tr, l)

Detail == \E target \in Names : api_monitor_detail(target)

Stats == api_stats

\* The program with its clock: deadman writes, time passes, the dashboard polls.
Next == Tick \/ Write \/ Monitors

Spec == Init /\ [][Next]_vars

\* The program with all its JSON handlers, at one instant.
NextQuery == Write \/ Monitors \/ Detail \/ Stats

SpecQuery == Init /\ [][NextQuery]_vars

\* ------------------------------------------------- one HostMonitor, fed directly
\* A caller holds one HostMonitor and calls add_measurement on it, numbering
\* the measurements 1, 2, 3, ...
InitMonitor ==
    /\ now = 0
    /\ bad_lines = 0
    /\ config = <<>>
    /\ log_dir = {}
    /\ logs = [h \in Names |-> <<>>]
    /\ monitors = [h \in {"a"} |-> HostMonitor("a", "unknown")]
    /\ monitor_order = <<"a">>
    /\ appended = [h \in Names |-> <<>>]
    /\ response = NoResponse
    /\ unreadable = {}
    /\ threads = [t \in Threads |-> IdleThread]

Feed(h, reading) ==
    LET fed == FeedEntries([monitor |-> monitors[h], appended |-> appended[h]],
                           << [timestamp |-> now, current |-> reading[1],
                               average |-> reading[2],
                               count |-> Len(appended[h]) + 1] >>)
    IN  /\ Len(appended[h]) < MaxAppends
        /\ monitors' = [monitors EXCEPT ![h] = fed.monitor]
        /\ appended' = [appended EXCEPT ![h] = fed.appended]
        /\ UNCHANGED <<now, bad_lines, config, log_dir, logs, monitor_order, response, unreadable, threads>>

NextMonitor == \E h \in DOMAIN monitors : \E r \in Readings : Feed(h, r)

SpecMonitor == InitMonitor /\ [][NextMonitor]_vars

\* ------------------------------------------ the registry over several sources
\* The configurations the registry is run with: none (main falls back to
\* DeadmanConfig('')), one that names a target deadman never logs and leaves
\* "a" out, and one whose line for "a" has two tabs after the name, so that
\* _parse_config keeps '' as its host.
ConfigsRegistry ==
    { <<>>,
      << <<"c", "10.0.0.3">>, <<"b", "10.0.0.2">> >>,
      << <<"b", "10.0.0.2">>, <<"a", "">> >> }

InitRegistry ==
    /\ now = 0
    /\ bad_lines = 0
    /\ config \in ConfigsRegistry
    /\ log_dir = {}
    /\ logs = [h \in Names |-> <<>>]
    /\ monitors = <<>>
    /\ monitor_order = <<>>
    /\ appended = [h \in Names |-> <<>>]
    /\ response = NoResponse
    /\ unreadable = {}
    /\ threads = [t \in Threads |-> IdleThread]

\* The lines a log file holds at most in the runs of the registry.
MaxLinesPerSource == HISTORY_MAXLEN - 1

\* deadman logs any of the targets; every ping is answered alike, the lines
\* of a file differ by their count.  A deleted file that has a monitor stays
\* deleted (its target was taken out of deadman's list).
WriteAny ==
    \E h \in Names :
        /\ Len(logs[h]) < MaxLinesPerSource
        /\ h \in log_dir \/ h \notin DOMAIN monitors
        /\ DeadmanWrite(h, OkLine(now, <<5, 5>>, Len(logs[h]) + 1))

\* A log file is deleted.
RemoveLog ==
    \E h \in log_dir :
        /\ log_dir' = log_dir \ {h}
        /\ logs' = [logs EXCEPT ![h] = <<>>]
        /\ unreadable' = unreadable \ {h}
        /\ response' = NoResponse
        /\ UNCHANGED <<now, bad_lines, config, monitors, monitor_order, appended, threads>>

\* A log file stops being readable by the server (open() raises), or becomes
\* readable again.
Chmod ==
    \E h \in log_dir :
        /\ unreadable' = IF h \in unreadable THEN unreadable \ {h}
                         ELSE unreadable \cup {h}
        /\ response' = NoResponse
        /\ UNCHANGED <<now, bad_lines, config, log_dir, logs, monitors, monitor_order,
                       appended, threads>>

\* GET /api/monitors with the default time_range.
MonitorsDefault ==
    \E l \in Listings(get_available_logs) : api_monitors(DEFAULT_TIME_RANGE, l)

\* The program started with a configuration that names "a" on two lines.
ConfigsRepeating ==
    { << <<"a", "10.0.0.1">>, <<"b", "10.0.0.2">>, <<"a", "10.0.0.9">> >> }

InitRepeating ==
    /\ now = 0
    /\ bad_lines = 0
    /\ config \in ConfigsRepeating
    /\ log_dir = {}
    /\ logs = [h \in Names |-> <<>>]
    /\ monitors = <<>>
    /\ monitor_order = <<>>
    /\ appended = [h \in Names |-> <<>>]
    /\ response = NoResponse
    /\ unreadable = {}
    /\ threads = [t \in Threads |-> IdleThread]

NextRepeating == WriteAny \/ MonitorsDefault

SpecRepeating == InitRepeating /\ [][NextRepeating]_vars

\* The program polled with the default time_range, under a clock that does
\* not stop: time keeps advancing.
NextClock == Tick \/ Write \/ MonitorsDefault

SpecFair == Init /\ [][NextClock]_vars /\ WF_vars(Tick)

NextRegistry == WriteAny \/ RemoveLog \/ Chmod \/ MonitorsDefault

SpecRegistry == InitRegistry /\ [][NextRegistry]_vars

\* ------------------------------------------------ update_monitor, called directly
\* The addresses update_monitor is called with; '' stands for every falsy
\* address (None, the default, included).
Addresses == {"", "10.0.0.1", "10.0.0.2"}

\* One call of LogParser.update_monitor.
ResolveMonitor(log_name, address) ==
    LET reg == update_monitor(
                   [monitors |-> monitors, order |-> monitor_order, appended |-> appended],
                   log_name, address)
    IN  /\ Len(reg.appended[log_name]) <= MaxAppends
        /\ monitors' = reg.monitors
        /\ monitor_order' = reg.order
        /\ appended' = reg.appended
        /\ response' = [kind |-> "update_monitor", log_name |-> log_name,
                        address |-> address]
        /\ UNCHANGED <<now, bad_lines, config, log_dir, logs, unreadable, threads>>

Resolve == \E log_name \in Names : \E address \in Addresses : ResolveMonitor(log_name, address)

NextResolve == WriteAny \/ Resolve

SpecResolve == Init /\ [][NextResolve]_vars

\* ------------------------------------------- the handlers on request threads
\* app.run serves every request on a thread of its own and the source takes
\* no lock: a thread can be switched out between any two statements.  The
\* steps below are the handler of /api/monitors cut at the calls of
\* update_monitor, at the calls of add_measurement and, inside
\* add_measurement, after history.append.

\* The entries the threads are still to feed to the monitor of h.
RECURSIVE PendingFor(_, _)
PendingFor(h, ts) ==
    IF ts = {} THEN 0
    ELSE LET t == CHOOSE x \in ts : TRUE
         IN  (IF threads[t].log_name = h /\ threads[t].pc \in {"feed", "fields"}
              THEN Len(threads[t].entries) ELSE 0) + PendingFor(h, ts \ {t})

\* api_monitors up to the listing of the log directory.
T_Request(t, listing) ==
    /\ threads[t].pc = "idle"
    /\ threads' = [threads EXCEPT ![t] =
                      [IdleThread EXCEPT !.pc = "update_all",
                                         !.time_range = DEFAULT_TIME_RANGE,
                                         !.listing = listing]]
    /\ response' = NoResponse
    /\ UNCHANGED <<now, bad_lines, config, log_dir, logs, monitors, monitor_order,
                   appended, unreadable>>

\* update_all_monitors takes the next file: update_monitor up to its loop.
T_UpdateMonitor(t) ==
    /\ threads[t].pc = "update_all"
    /\ threads[t].listing # <<>>
    /\ LET log_name == Head(threads[t].listing)
           address  == targets_get(config, log_name)
           known    == log_name \in DOMAIN monitors
           created  == IF known THEN monitors[log_name]
                       ELSE HostMonitor(log_name,
                                        IF address = "" THEN "unknown" ELSE address)
           monitor  == IF address # "" THEN [created EXCEPT !.address = address]
                       ELSE created
           entries  == parse_log_file(log_name, TAIL_LINES)
       IN  /\ Len(appended[log_name]) + PendingFor(log_name, Threads) + Len(entries)
                 <= MaxAppends
           /\ monitors' = [h \in DOMAIN monitors \cup {log_name} |->
                              IF h = log_name THEN monitor ELSE monitors[h]]
           /\ monitor_order' = IF known THEN monitor_order
                               ELSE Append(monitor_order, log_name)
           /\ threads' = [threads EXCEPT ![t] =
                             [@ EXCEPT !.pc = IF entries = <<>> THEN "update_all"
                                              ELSE "feed",
                                       !.listing = Tail(@),
                                       !.log_name = log_name,
                                       !.entries = entries,
                                       !.fed = 0]]
    /\ response' = NoResponse
    /\ UNCHANGED <<now, bad_lines, config, log_dir, logs, appended, unreadable>>

\* add_measurement up to and with history.append.
T_Append(t) ==
    /\ threads[t].pc = "feed"
    /\ LET h == threads[t].log_name
           e == Head(threads[t].entries)
           built == NewEntry(monitors[h], e.current, e.average, e.count, e.timestamp)
       IN  /\ monitors' = [monitors EXCEPT ![h].history = DequeAppend(@, built)]
           /\ appended' = [appended EXCEPT ![h] = Append(@, built)]
    /\ threads' = [threads EXCEPT ![t].pc = "fields"]
    /\ response' = NoResponse
    /\ UNCHANGED <<now, bad_lines, config, log_dir, logs, monitor_order, unreadable>>

\* The rest of add_measurement: prev_* and last_*.
T_Fields(t) ==
    /\ threads[t].pc = "fields"
    /\ LET h == threads[t].log_name
           e == Head(threads[t].entries)
       IN  monitors' = [monitors EXCEPT ![h] =
                           [@ EXCEPT !.prev_current  = e.current,
                                     !.prev_average  = e.average,
                                     !.last_current  = e.current,
                                     !.last_average  = e.average,
                                     !.last_sequence = e.count,
                                     !.last_update   = e.timestamp]]
    /\ threads' = [threads EXCEPT ![t] =
                      [@ EXCEPT !.pc = IF Tail(threads[t].entries) = <<>>
                                       THEN "update_all" ELSE "feed",
                                !.entries = Tail(@),
                                !.fed = @ + 1]]
    /\ response' = NoResponse
    /\ UNCHANGED <<now, bad_lines, config, log_dir, logs, monitor_order, appended,
                   unreadable>>

\* api_monitors after update_all_monitors: monitor_list and the response.
T_List(t) ==
    /\ threads[t].pc = "update_all"
    /\ threads[t].listing = <<>>
    /\ LET names == ListOrder(config, monitors, monitor_order)
       IN  response' = [kind |-> "monitors", time_range |-> threads[t].time_range,
                        body |-> [i \in DOMAIN names |->
                                     Snapshot(monitors[names[i]], names[i],
                                              threads[t].time_range, now)]]
    /\ threads' = [threads EXCEPT ![t] = IdleThread]
    /\ UNCHANGED <<now, bad_lines, config, log_dir, logs, monitors, monitor_order,
                   appended, unreadable>>

\* /api/monitor/<target> on a thread that is free.
T_Detail ==
    /\ \E t \in Threads : threads[t].pc = "idle"
    /\ Detail

Serve(t) ==
    \/ \E listing \in Listings(get_available_logs) : T_Request(t, listing)
    \/ T_UpdateMonitor(t)
    \/ T_Append(t)
    \/ T_Fields(t)
    \/ T_List(t)

NextThreads == WriteAny \/ T_Detail \/ \E t \in Threads : Serve(t)

SpecThreads == Init /\ [][NextThreads]_vars

\* ------------------------------------------------ api_stats, pass by pass
\* api_stats walks the monitors three times, once per status it counts, and
\* every get_status_class reads datetime.now() anew: the clock (and the other
\* handlers) can move between the passes.

\* No request is being served.
AllIdle == \A t \in Threads : threads[t].pc = "idle"

\* api_stats through total_hosts and up_hosts.
S_CountUp(t) ==
    /\ AllIdle
    /\ threads' = [threads EXCEPT ![t] =
                      [IdleThread EXCEPT !.pc = "count_down",
                                         !.total_hosts = Cardinality(DOMAIN monitors),
                                         !.up_hosts = Cardinality(WithStatus("up"))]]
    /\ response' = NoResponse
    /\ UNCHANGED <<now, bad_lines, config, log_dir, logs, monitors, monitor_order,
                   appended, unreadable>>

\* api_stats: down_hosts.
S_CountDown(t) ==
    /\ threads[t].pc = "count_down"
    /\ threads' = [threads EXCEPT ![t] =
                      [@ EXCEPT !.pc = "count_stale",
                                !.down_hosts = Cardinality(WithStatus("down"))]]
    /\ response' = NoResponse
    /\ UNCHANGED <<now, bad_lines, config, log_dir, logs, monitors, monitor_order,
                   appended, unreadable>>

\* api_stats from stale_hosts to the response.
S_CountStale(t) ==
    /\ threads[t].pc = "count_stale"
    /\ LET total_hosts == threads[t].total_hosts
           up_hosts    == threads[t].up_hosts
           down_hosts  == threads[t].down_hosts
           stale_hosts == Cardinality(WithStatus("stale"))
           sum         == SumLossRates(DOMAIN monitors)
           count       == Cardinality(DOMAIN monitors)
       IN  response' =
              [kind |-> "stats",
               total_hosts   |-> total_hosts,
               up_hosts      |-> up_hosts,
               down_hosts    |-> down_hosts,
               stale_hosts   |-> stale_hosts,
               unknown_hosts |-> total_hosts - up_hosts - down_hosts - stale_hosts,
               average_loss_rate |->
                   IF count # 0 THEN Rat(sum.num, sum.den * count)
                   ELSE Rat(0, 1)]
    /\ threads' = [threads EXCEPT ![t] = IdleThread]
    /\ UNCHANGED <<now, bad_lines, config, log_dir, logs, monitors, monitor_order,
                   appended, unreadable>>

ServeStats(t) == S_CountUp(t) \/ S_CountDown(t) \/ S_CountStale(t)

\* The server answering one request at a time, the clock running all the
\* while.
NextStats ==
    \/ Tick
    \/ Write
    \/ AllIdle /\ MonitorsDefault
    \/ \E t \in Threads : ServeStats(t)

SpecStats == Init /\ [][NextStats]_vars

\* ================================================================== claims
\* The sequence numbers of a sequence of entries.
SequencesOf(entries) == [i \in DOMAIN entries |-> entries[i].sequence]
\* The readings of a sequence of entries.
ReadingsOf(entries) == [i \in DOMAIN entries |-> <<entries[i].current, entries[i].average>>]
\* The is_loss flags of a sequence of entries.
LossesOf(entries) == [i \in DOMAIN entries |-> entries[i].is_loss]
\* The numbers from, from + 1, ..., to as a sequence.
Counting(from, to) == [i \in 1..(to - from + 1) |-> from + i - 1]

\* C1: the history of every monitor holds at most HISTORY_MAXLEN (600 in the
\* source) entries, whatever was appended and over however many refreshes.
C1_HistoryBounded ==
    \A h \in DOMAIN monitors : Len(monitors[h].history) <= HISTORY_MAXLEN

\* A monitor fed more measurements than its history holds, and full.
C1_Witness ==
    \E h \in DOMAIN monitors :
        /\ Len(appended[h]) > HISTORY_MAXLEN
        /\ Len(monitors[h].history) = HISTORY_MAXLEN

\* C2: eviction is oldest-first.  The history is the last HISTORY_MAXLEN of the
\* entries add_measurement built, in the order it built them, the newest last;
\* after HISTORY_MAXLEN + 1 appends numbered 1, 2, ... it holds the entries
\* numbered 2 .. HISTORY_MAXLEN + 1.
C2_OldestEvictedFirst ==
    \A h \in DOMAIN monitors :
        /\ monitors[h].history = LastN(appended[h], HISTORY_MAXLEN)
        /\ SequencesOf(appended[h]) = Counting(1, HISTORY_MAXLEN + 1)
              => SequencesOf(monitors[h].history) = Counting(2, HISTORY_MAXLEN + 1)

\* A monitor fed exactly the measurements numbered 1 .. HISTORY_MAXLEN + 1.
C2_Witness ==
    \E h \in DOMAIN monitors :
        SequencesOf(appended[h]) = Counting(1, HISTORY_MAXLEN + 1)

\* C5: while a history is not empty, last_current, last_average, last_sequence
\* and last_update are those of its newest entry, loss or not.
C5_LastMirrorsNewest ==
    \A h \in DOMAIN monitors :
        LET m == monitors[h]
            n == Len(m.history)
        IN  n > 0 =>
               /\ m.last_current  = m.history[n].current
               /\ m.last_average  = m.history[n].average
               /\ m.last_sequence = m.history[n].sequence
               /\ m.last_update   = m.history[n].timestamp

\* A history whose newest entry is a loss that follows a different reading.
C5_Witness ==
    \E h \in DOMAIN monitors :
        LET m == monitors[h]
            n == Len(m.history)
        IN  /\ n > 1
            /\ m.history[n].is_loss
            /\ m.history[n].current # m.history[n - 1].current
            /\ m.last_current = m.history[n].current

\* C10: an entry in a history is never changed.  A step keeps every entry of
\* every history as it is, in its order, except that it may drop entries at the
\* old end of a history it leaves full and add entries at the new end; a step
\* that is not a refresh leaves every monitor as it is.
C10_EntriesImmutable ==
    [][ /\ \A h \in DOMAIN monitors :
              /\ h \in DOMAIN monitors'
              /\ LET old == monitors[h].history
                     new == monitors'[h].history
                 IN  \E k \in 0..Len(old) :
                        /\ k > 0 => Len(new) = HISTORY_MAXLEN
                        /\ Len(new) >= Len(old) - k
                        /\ \A i \in 1..(Len(old) - k) : new[i] = old[i + k]
        /\ response'.kind # "monitors" => monitors' = monitors
      ]_vars

\* The aggregate statistics are read from a monitor that has lost its oldest
\* entry and kept a loss and a non-loss.
C10_Witness ==
    /\ response.kind = "stats"
    /\ \E h \in DOMAIN monitors :
          /\ Len(appended[h]) > HISTORY_MAXLEN
          /\ \E i, j \in DOMAIN monitors[h].history :
                monitors[h].history[i].is_loss /\ ~monitors[h].history[j].is_loss

\* C3: an append with current > 0 is a loss if and only if the monitor was fed
\* before and the measurement fed just before it, loss or not, had the same
\* current and the same average.
C3_RepeatedReadingIsLoss ==
    \A h \in DOMAIN monitors :
        LET fed == appended[h]
        IN  /\ \A i \in DOMAIN fed :
                  fed[i].current > 0 =>
                      (fed[i].is_loss <=>
                          /\ i > 1
                          /\ fed[i - 1].current = fed[i].current
                          /\ fed[i - 1].average = fed[i].average)
            /\ fed # <<>> =>
                  monitors[h].history[Len(monitors[h].history)] = fed[Len(fed)]
            /\ ReadingsOf(fed) = << <<5, 5>>, <<5, 5>>, <<6, 6>> >>
                  => LossesOf(fed) = <<FALSE, TRUE, FALSE>>
            /\ ReadingsOf(fed) = << <<5, 5>>, <<0, 0>>, <<5, 5>> >>
                  => LossesOf(fed) = <<FALSE, TRUE, FALSE>>

\* A monitor fed (5,5), (5,5), (6,6).
C3_Witness ==
    \E h \in DOMAIN monitors :
        /\ ReadingsOf(appended[h]) = << <<5, 5>>, <<5, 5>>, <<6, 6>> >>
        /\ LossesOf(monitors[h].history) = <<FALSE, TRUE, FALSE>>

\* C4: every append with current = 0 is a loss, whatever was fed before it.
C4_ZeroIsLoss ==
    \A h \in DOMAIN monitors :
        /\ \A i \in DOMAIN appended[h] :
              appended[h][i].current = 0 => appended[h][i].is_loss
        /\ \A i \in DOMAIN monitors[h].history :
              monitors[h].history[i].current = 0 => monitors[h].history[i].is_loss

\* A monitor fed a zero first, a zero after a loss and a zero after a non-loss.
C4_Witness ==
    \E h \in DOMAIN monitors :
        /\ ReadingsOf(appended[h]) = << <<0, 0>>, <<0, 0>>, <<5, 5>>, <<0, 0>> >>
        /\ LossesOf(appended[h]) = <<TRUE, TRUE, FALSE, TRUE>>

\* C6: in the list /api/monitors returns, a monitor that was never fed is
\* 'unknown'; one that was fed is 'stale' exactly when the time since the
\* timestamp fed last exceeds STALE_SECONDS, and otherwise 'up' when the current
\* fed last is > 0 and 'down' when it is not.
C6_StatusClass ==
    response.kind = "monitors" =>
        \A i \in DOMAIN response.body :
            LET snap == response.body[i]
                fed  == appended[snap.name]
                newest == fed[Len(fed)]
            IN  /\ fed = <<>> => snap.status = "unknown"
                /\ fed # <<>> =>
                      /\ snap.status = "stale" <=> now - newest.timestamp > STALE_SECONDS
                      /\ snap.status # "stale" =>
                            snap.status = IF newest.current > 0 THEN "up" ELSE "down"

\* /api/monitors reports a monitor stale whose last reading was > 0.
C6_Witness ==
    /\ response.kind = "monitors"
    /\ \E i \in DOMAIN response.body :
          /\ response.body[i].status = "stale"
          /\ response.body[i].last_current > 0

\* C7: for a time_range >= 0, the sparkline_data /api/monitors returns for a
\* monitor are the newest min(time_range, history length) entries of its
\* history, oldest first.
C7_SparklineIsNewest ==
    (response.kind = "monitors" /\ response.time_range >= 0) =>
        \A i \in DOMAIN response.body :
            LET history == monitors[response.body[i].name].history
                n == Min(response.time_range, Len(history))
            IN  response.body[i].sparkline_data
                    = SubSeq(history, Len(history) - n + 1, Len(history))

\* C8: the loss_rate /api/monitors returns is 100 times the number of entries
\* of the history with is_loss over the number of its entries, lies in [0, 100],
\* and is 0 for an empty history.
C8_LossRate ==
    response.kind = "monitors" =>
        \A i \in DOMAIN response.body :
            LET history == monitors[response.body[i].name].history
                lost == Cardinality({j \in DOMAIN history : history[j].is_loss})
                rate == response.body[i].loss_rate
            IN  /\ rate.den > 0
                /\ rate.num * Len(history) = 100 * lost * rate.den
                /\ 0 <= rate.num /\ rate.num <= 100 * rate.den
                /\ history = <<>> => rate.num = 0

\* /api/monitors reports a loss rate strictly between 0 and 100 for a history
\* that is not full.
C8_Witness ==
    /\ response.kind = "monitors"
    /\ \E i \in DOMAIN response.body :
          LET rate == response.body[i].loss_rate
          IN  /\ 0 < rate.num /\ rate.num < 100 * rate.den
              /\ Len(monitors[response.body[i].name].history) < HISTORY_MAXLEN

\* C9: the timestamps of every history are non-decreasing from the oldest entry
\* to the newest (the log files are chronological: DeadmanWrite stamps a line
\* with the clock).
C9_HistoryTimeOrdered ==
    \A h \in DOMAIN monitors :
        \A i, j \in DOMAIN monitors[h].history :
            i < j => monitors[h].history[i].timestamp <= monitors[h].history[j].timestamp

\* C19: /api/monitor/<target> answers 404 exactly when the target has no monitor,
\* and that step leaves the registry as it was (no monitor is created);
\* /api/stats on an empty registry answers total 0, every status count 0 and
\* average loss rate 0.0.
C19_MissingAndEmpty ==
    [][ /\ response'.kind = "detail" =>
              /\ (response'.code = 404) <=> (response'.target \notin DOMAIN monitors)
              /\ response'.code = 404 =>
                    /\ monitors' = monitors
                    /\ monitor_order' = monitor_order
        /\ (response'.kind = "stats" /\ DOMAIN monitors = {}) =>
              /\ response'.total_hosts = 0
              /\ response'.up_hosts = 0
              /\ response'.down_hosts = 0
              /\ response'.stale_hosts = 0
              /\ response'.unknown_hosts = 0
              /\ response'.average_loss_rate = [num |-> 0, den |-> 1] ]_vars

\* A target without a monitor was asked for while another target has one.
C19_Witness ==
    /\ response.kind = "detail"
    /\ response.code = 404
    /\ DOMAIN monitors # {}
    /\ response.target \notin DOMAIN monitors

\* /api/stats answered on the empty registry.
C19_WitnessEmptyStats ==
    /\ response.kind = "stats"
    /\ DOMAIN monitors = {}

\* C20: /api/monitor/<target> and /api/stats are pure reads: the step that
\* answers either leaves the set of monitors, their order and every field of
\* every monitor (history, prev_*, last_*, address, name) as they were.
C20_QueriesArePureReads ==
    [][ response'.kind \in {"detail", "stats"} =>
            /\ monitors' = monitors
            /\ monitor_order' = monitor_order
            /\ appended' = appended ]_vars

\* The detail of a monitor with a loss in its history was answered.
C20_Witness ==
    /\ response.kind = "detail"
    /\ response.code = 200
    /\ response.history_count > 1
    /\ \E i \in DOMAIN response.body.sparkline_data :
          response.body.sparkline_data[i].is_loss

\* The i-th element of s does not occur before it.
NoDuplicates(s) == \A i, j \in DOMAIN s : s[i] = s[j] => i = j

\* C13: update_monitor(log_name, address) is idempotent on the registry: the
\* keys of the registry are those it had plus log_name, each once; every other
\* monitor is untouched; no monitor's name changes; and a monitor that existed
\* keeps its history (the new entries come after the old ones, the oldest
\* leaving when the capacity is passed), keeps its last_* and prev_* when
\* nothing is appended, and has its address replaced by the address supplied
\* when that is non-empty and kept otherwise.
C13_ResolveIdempotent ==
    [][ response'.kind = "update_monitor" =>
          LET h == response'.log_name
              address == response'.address
          IN  /\ DOMAIN monitors' = DOMAIN monitors \cup {h}
              /\ NoDuplicates(monitor_order')
              /\ Range(monitor_order') = DOMAIN monitors'
              /\ \A g \in DOMAIN monitors' : monitors'[g].name = g
              /\ \A g \in DOMAIN monitors \ {h} : monitors'[g] = monitors[g]
              /\ h \in DOMAIN monitors =>
                    LET old == monitors[h]
                        new == monitors'[h]
                        added == SubSeq(appended'[h], Len(appended[h]) + 1,
                                        Len(appended'[h]))
                    IN  /\ new.name = old.name
                        /\ new.address = IF address # "" THEN address ELSE old.address
                        /\ appended'[h] = appended[h] \o added
                        /\ new.history = LastN(old.history \o added, HISTORY_MAXLEN)
                        /\ added = <<>> =>
                              /\ new.last_current = old.last_current
                              /\ new.last_average = old.last_average
                              /\ new.last_sequence = old.last_sequence
                              /\ new.last_update = old.last_update
                              /\ new.prev_current = old.prev_current
                              /\ new.prev_average = old.prev_average ]_vars

\* update_monitor was called without an address on a monitor that was given
\* an address before and holds entries of two refreshes.
C13_Witness ==
    /\ response.kind = "update_monitor"
    /\ response.address = ""
    /\ response.log_name \in DOMAIN monitors
    /\ monitors[response.log_name].address = "10.0.0.1"
    /\ Len(appended[response.log_name]) > Len(logs[response.log_name])
    /\ Len(monitors[response.log_name].history) > 1

\* The j-th smallest number of the set S.
NthOf(S, j) == CHOOSE x \in S : Cardinality({y \in S : y < x}) = j - 1

\* C14: the list /api/monitors returns starts with one element per line of the
\* configuration whose target has a monitor, in the order of the lines, and
\* goes on with the monitors no line names, in the order they were added to
\* the registry; a configured target without a monitor has no element.
C14_ListOrder ==
    response.kind = "monitors" =>
        LET names  == [i \in DOMAIN response.body |-> response.body[i].name]
            lines  == {i \in DOMAIN config : config[i][1] \in DOMAIN monitors}
            others == {i \in DOMAIN monitor_order :
                          \A j \in DOMAIN config : config[j][1] # monitor_order[i]}
            k      == Cardinality(lines)
        IN  /\ Len(names) = k + Cardinality(others)
            /\ \A j \in 1..k : names[j] = config[NthOf(lines, j)][1]
            /\ \A j \in 1..Cardinality(others) :
                  names[k + j] = monitor_order[NthOf(others, j)]
            /\ \A j \in DOMAIN names : names[j] \in DOMAIN monitors

\* The list was returned with a configured monitor in front of an unconfigured
\* one that was added to the registry before it, the configuration naming a
\* target that has no monitor.
C14_Witness ==
    /\ response.kind = "monitors"
    /\ Len(response.body) = 2
    /\ response.body[1].name = "b"
    /\ response.body[2].name = "a"
    /\ monitor_order = <<"a", "b">>
    /\ \E j \in DOMAIN config : config[j][1] \notin DOMAIN monitors
    /\ \A j \in DOMAIN config : config[j][1] # "a"

\* The list was returned for two monitors no line of the configuration names.
C14_WitnessUnconfigured ==
    /\ response.kind = "monitors"
    /\ config = <<>>
    /\ Len(response.body) = 2
    /\ response.body[1].name = "b"

\* The lines of the configuration that name h.
LinesNaming(h) == {i \in DOMAIN config : config[i][1] = h}
\* The host of the last line of the configuration that names h.
ConfiguredAddress(h) ==
    config[CHOOSE i \in LinesNaming(h) : \A j \in LinesNaming(h) : j <= i][2]

\* C15 as stated: a step creates monitors only for files the directory lists
\* (so a configured target without a file never gets one), and a monitor it
\* creates has the address the configuration gives its name, "unknown" if the
\* configuration does not name it.
C15_CreatedWithConfiguredAddress ==
    [][ \A h \in DOMAIN monitors' \ DOMAIN monitors :
            /\ h \in get_available_logs
            /\ monitors'[h].address =
                  IF LinesNaming(h) # {} THEN ConfiguredAddress(h) ELSE "unknown" ]_vars

\* C15, amended: a step creates monitors only for files the directory lists,
\* and a monitor it creates has the address the configuration gives its name
\* when the configuration names it with a non-empty address, "unknown" when
\* the configuration does not name it or names it with an empty address.
C15_CreatedForListedFiles ==
    [][ \A h \in DOMAIN monitors' \ DOMAIN monitors :
            /\ h \in get_available_logs
            /\ monitors'[h].address =
                  IF LinesNaming(h) # {} /\ ConfiguredAddress(h) # ""
                  THEN ConfiguredAddress(h) ELSE "unknown" ]_vars

\* A refresh has given the configured monitor its configured address and the
\* unconfigured one "unknown", a configured target without a file having no
\* monitor.
C15_Witness ==
    /\ response.kind = "monitors"
    /\ DOMAIN monitors = {"a", "b"}
    /\ LinesNaming("c") # {} /\ LinesNaming("a") = {}
    /\ monitors["b"].address = ConfiguredAddress("b")
    /\ monitors["b"].address # "unknown"
    /\ monitors["a"].address = "unknown"

\* A refresh has created the monitor of a target configured with an empty
\* address.
C15_WitnessEmptyAddress ==
    /\ response.kind = "monitors"
    /\ "a" \in DOMAIN monitors
    /\ LinesNaming("a") # {}
    /\ ConfiguredAddress("a") = ""
    /\ monitors["a"].address = "unknown"

\* C16: no step removes a monitor from the registry, and a step leaves a
\* monitor whose log file is gone or cannot be read exactly as it was: its
\* history, last_* and prev_* values, name and address.
C16_NeverRemoved ==
    [][ /\ DOMAIN monitors \subseteq DOMAIN monitors'
        /\ \A h \in DOMAIN monitors :
              (h \notin log_dir \/ h \in unreadable) => monitors'[h] = monitors[h] ]_vars

\* A refresh has run over a registry that holds a monitor with entries whose
\* file is deleted and another with entries whose file cannot be read.
C16_Witness ==
    /\ response.kind = "monitors"
    /\ \E h, g \in DOMAIN monitors :
          /\ h \notin log_dir
          /\ monitors[h].history # <<>>
          /\ g \in log_dir /\ g \in unreadable
          /\ monitors[g].history # <<>>

\* The well-formed lines of a sequence of lines, in order.
KeptLines(lines) ==
    LET kept == {i \in DOMAIN lines : lines[i].ok}
    IN  [j \in 1..Cardinality(kept) |-> lines[NthOf(kept, j)]]
\* What a refresh reads from the file of h: the well-formed ones of its last
\* TAIL_LINES lines, as <<timestamp, current, average, count>>.
ReadFrom(h) ==
    LET lines == KeptLines(LastN(logs[h], TAIL_LINES))
    IN  [i \in DOMAIN lines |-> <<lines[i].timestamp, lines[i].current,
                                   lines[i].average, lines[i].count>>]
\* What this step appended to the history of h, as <<timestamp, current,
\* average, sequence>>.
AddedTo(h) ==
    [i \in 1..(Len(appended'[h]) - Len(appended[h])) |->
        LET e == appended'[h][Len(appended[h]) + i]
        IN  <<e.timestamp, e.current, e.average, e.sequence>>]

\* C17: in a refresh, a listed file that cannot be read adds nothing to its
\* monitor, which stays as it was (history, last_*, prev_*), and every listed
\* file that can be read has all it holds appended to its monitor in the same
\* refresh, wherever the unreadable file comes in the listing.
C17_SourcesIndependent ==
    [][ response'.kind = "monitors" =>
          \A h \in get_available_logs :
              /\ h \in DOMAIN monitors'
              /\ SubSeq(appended'[h], 1, Len(appended[h])) = appended[h]
              /\ h \in unreadable =>
                    /\ AddedTo(h) = <<>>
                    /\ h \in DOMAIN monitors => monitors'[h] = monitors[h]
              /\ h \notin unreadable => AddedTo(h) = ReadFrom(h) ]_vars

\* A refresh has run with one file unreadable, whose monitor holds entries of
\* an earlier refresh, and one file read.
C17_Witness ==
    /\ response.kind = "monitors"
    /\ \E g \in unreadable : \E h \in log_dir \ unreadable :
          /\ g \in log_dir
          /\ monitors[g].last_sequence > 0
          /\ logs[h] # <<>>
          /\ Len(appended[h]) >= Len(logs[h])

\* C18: a refresh appends to a monitor exactly the well-formed lines of the
\* tail of its file, in the order of the file, those before and those after a
\* malformed line alike; the malformed line adds nothing and leaves no trace:
\* the loss flag of every entry appended is the one its reading and the
\* reading appended just before it give.
C18_MalformedSkipped ==
    [][ response'.kind = "monitors" =>
          \A h \in get_available_logs :
              /\ SubSeq(appended'[h], 1, Len(appended[h])) = appended[h]
              /\ AddedTo(h) = ReadFrom(h)
              /\ \A k \in (Len(appended[h]) + 1)..Len(appended'[h]) :
                    LET e == appended'[h][k]
                    IN  e.is_loss <=>
                          \/ e.current = 0
                          \/ /\ k > 1
                             /\ e.current = appended'[h][k - 1].current
                             /\ e.average = appended'[h][k - 1].average ]_vars

\* A refresh has read a tail with a malformed line between two well-formed
\* ones.
C18_Witness ==
    /\ response.kind = "monitors"
    /\ \E h \in log_dir :
          /\ \E i, j, k \in DOMAIN logs[h] :
                /\ Len(logs[h]) - TAIL_LINES < i /\ i < j /\ j < k
                /\ logs[h][i].ok /\ ~logs[h][j].ok /\ logs[h][k].ok
          /\ Len(appended[h]) >= 2
          /\ Len(monitors[h].history) >= 2

\* Thread t is in the loop of update_monitor for h and has appended some of
\* the entries of its refresh to the history of h, not all.
PartlyFed(t, h) ==
    LET done == threads[t].fed + (IF threads[t].pc = "fields" THEN 1 ELSE 0)
    IN  /\ threads[t].pc \in {"feed", "fields"}
        /\ threads[t].log_name = h
        /\ 0 < done
        /\ done < threads[t].fed + Len(threads[t].entries)

\* The names of the monitors the response just returned reports.
Reported ==
    IF response.kind = "monitors"
    THEN {response.body[i].name : i \in DOMAIN response.body}
    ELSE IF response.kind = "detail" /\ response.code = 200
    THEN {response.target}
    ELSE {}

\* C11: a response never reports a monitor while a thread has appended some
\* but not all of the entries of its refresh to that monitor, and no two
\* threads are at once part of the way through their refresh of one monitor.
C11_RefreshBeforeQuery ==
    /\ \A h \in Reported : \A t \in Threads : ~PartlyFed(t, h)
    /\ \A h \in DOMAIN monitors : \A t, u \in Threads :
          (PartlyFed(t, h) /\ PartlyFed(u, h)) => t = u

\* C11, its second half alone: no two threads are at once part of the way
\* through their refresh of one monitor.
RefreshesDoNotInterleave ==
    \A h \in DOMAIN monitors : \A t, u \in Threads :
        (PartlyFed(t, h) /\ PartlyFed(u, h)) => t = u

\* C12: whenever a response reports a monitor with a non-empty history, the
\* last_current, last_average, last_sequence and last_update it reports are
\* those of the newest entry of the history it reports.
C12_AppendAtomic ==
    LET agree(body) ==
            body.sparkline_data # <<>> =>
                LET e == body.sparkline_data[Len(body.sparkline_data)]
                IN  /\ body.last_current = e.current
                    /\ body.last_average = e.average
                    /\ body.last_sequence = e.sequence
                    /\ body.last_update = e.timestamp
    IN  /\ (response.kind = "detail" /\ response.code = 200) => agree(response.body)
        /\ response.kind = "monitors" =>
              \A i \in DOMAIN response.body : agree(response.body[i])

\* C25: the list /api/monitors returns has exactly one element for every
\* monitor of the registry, whatever the configuration, one that names a
\* target on two lines included.
C25_EachWindowOnce ==
    response.kind = "monitors" =>
        \A h \in DOMAIN monitors :
            Cardinality({i \in DOMAIN response.body : response.body[i].name = h}) = 1

\* The last n entries add_measurement built for h before this step, as
\* <<timestamp, current, average, sequence>>.
LastBatch(h, n) ==
    [i \in 1..n |->
        LET e == appended[h][Len(appended[h]) - n + i]
        IN  <<e.timestamp, e.current, e.average, e.sequence>>]

\* C22: when the refresh before this one ingested the tail the file still
\* has (the file is unchanged between the two), every entry this refresh
\* appends has the is_loss of the entry the earlier refresh appended for the
\* same line, the first line of the tail included.
C22_ReingestRepeatable ==
    [][ response'.kind = "monitors" =>
          \A h \in get_available_logs :
              LET n == Len(ReadFrom(h))
              IN  (n > 0 /\ Len(appended[h]) >= n /\ LastBatch(h, n) = ReadFrom(h)) =>
                      \A i \in 1..n :
                          appended'[h][Len(appended[h]) + i].is_loss
                              = appended[h][Len(appended[h]) - n + i].is_loss ]_vars

\* The well-formed lines of the file of h, all of them, as <<timestamp,
\* current, average, count>>.
RecordsOf(h) ==
    LET lines == KeptLines(logs[h])
    IN  [i \in DOMAIN lines |-> <<lines[i].timestamp, lines[i].current,
                                   lines[i].average, lines[i].count>>]
\* The history of h after this step, as <<timestamp, current, average,
\* sequence>>.
HistoryAfter(h) ==
    [i \in DOMAIN monitors'[h].history |->
        LET e == monitors'[h].history[i]
        IN  <<e.timestamp, e.current, e.average, e.sequence>>]

\* C23: a refresh appends to the monitor of a file the most recent of its
\* well-formed records, at most TAIL_LINES (600 in the source) of them, in
\* the order of the file; and when the file holds at least HISTORY_MAXLEN
\* (600) well-formed records, the history after the refresh is exactly the
\* last HISTORY_MAXLEN of them, in the order of the file, whatever it held
\* before.
C23_RefreshAppendsTail ==
    [][ response'.kind = "monitors" =>
          \A h \in get_available_logs :
              /\ Len(AddedTo(h)) <= TAIL_LINES
              /\ AddedTo(h) = LastN(RecordsOf(h), Len(AddedTo(h)))
              /\ Len(RecordsOf(h)) >= HISTORY_MAXLEN =>
                    HistoryAfter(h) = LastN(RecordsOf(h), HISTORY_MAXLEN) ]_vars

\* C23 for the files without a malformed line among their last TAIL_LINES
\* lines.
RefreshAppendsCleanTail ==
    [][ response'.kind = "monitors" =>
          \A h \in get_available_logs :
              (\A i \in DOMAIN logs[h] : i > Len(logs[h]) - TAIL_LINES => logs[h][i].ok) =>
                  /\ Len(AddedTo(h)) <= TAIL_LINES
                  /\ AddedTo(h) = LastN(RecordsOf(h), Len(AddedTo(h)))
                  /\ Len(RecordsOf(h)) >= HISTORY_MAXLEN =>
                        HistoryAfter(h) = LastN(RecordsOf(h), HISTORY_MAXLEN) ]_vars

\* C21: the counts /api/stats returns classify every monitor once: up, down,
\* stale and unknown add up to the total, none is negative, and unknown is
\* the number of monitors that were never fed a measurement, also when the
\* clock passes the staleness limit of a monitor while the counts are taken.
C21_StatsPartition ==
    response.kind = "stats" =>
        /\ response.up_hosts + response.down_hosts + response.stale_hosts
              + response.unknown_hosts = response.total_hosts
        /\ response.up_hosts >= 0
        /\ response.down_hosts >= 0
        /\ response.stale_hosts >= 0
        /\ response.unknown_hosts >= 0
        /\ response.unknown_hosts
              = Cardinality({h \in DOMAIN monitors : monitors[h].last_update = None})

\* The last instant of the clock.
LastInstant == CHOOSE t \in Instants : \A u \in Instants : u <= t

\* h has a monitor whose newest measurement carries the time ts.
LastUpdateIs(h, ts) == h \in DOMAIN monitors /\ monitors[h].last_update = ts

\* The file of h holds a well-formed line with a time after ts.
HasNewerRecord(h, ts) ==
    \E i \in DOMAIN logs'[h] : logs'[h][i].ok /\ logs'[h][i].timestamp > ts

\* C24: a monitor that is stale stays stale, in the registry and in every
\* list /api/monitors returns, through every refresh that ingests the same
\* lines again, until its file holds a record with a newer time; and with a
\* clock that keeps advancing, a monitor whose newest measurement the clock
\* can outrun by more than STALE_SECONDS does become stale unless a newer
\* record is ingested first.
C24_StaleUntilNewer ==
    /\ [][ \A h \in DOMAIN monitors :
              get_status_class(monitors[h], now) = "stale" =>
                  \/ HasNewerRecord(h, monitors[h].last_update)
                  \/ /\ get_status_class(monitors'[h], now') = "stale"
                     /\ response'.kind = "monitors" =>
                           \A i \in DOMAIN response'.body :
                               response'.body[i].name = h =>
                                   response'.body[i].status = "stale" ]_vars
    /\ \A h \in Names : \A ts \in Instants :
          (LastUpdateIs(h, ts) /\ ts + STALE_SECONDS < LastInstant)
              ~> (\/ ~LastUpdateIs(h, ts)
                  \/ get_status_class(monitors[h], now) = "stale")

\* /api/monitors reports a monitor as stale after the second refresh that
\* ingested the lines of its file.
C24_Witness ==
    /\ response.kind = "monitors"
    /\ \E i \in DOMAIN response.body :
          LET h == response.body[i].name
          IN  /\ response.body[i].status = "stale"
              /\ logs[h] # <<>>
              /\ \A j \in DOMAIN logs[h] : logs[h][j].ok
              /\ Len(appended[h]) >= 2 * Len(logs[h])

====
